---- MODULE Spec2Model ----
(***************************************************************************)
(* A model of the two front ends of video-downloader-cli:                  *)
(*   video_downloader.py  main() + VideoDownloader      (flag parsing)     *)
(*   app.py               InteractiveVideoDownloader    (prompt flow)      *)
(* Both build an argument list for yt-dlp and run it with subprocess.run.  *)
(* A command is a sequence of strings.  Python's None is the value None,   *)
(* True and False are PyTrue and PyFalse where a variable may hold None.   *)
(***************************************************************************)
EXTENDS Naturals, Integers, Sequences, FiniteSets, TLC

VARIABLES
    entry,            \* "cli" (video_downloader.py), "interactive" (app.py), or
                      \* "call" (VideoDownloader used as a library)
    pc,               \* position of the program
    files,            \* names that exist in the working directory
    args,             \* argparse namespace of main(), or the arguments of download()
    cookies_path,     \* InteractiveVideoDownloader.cookies_path
    urls,             \* run_interactive: urls
    download_type,    \* run_interactive: download_type
    list_cookies,     \* run_interactive: the argument prompt_use_cookies() of line 205
    use_cookies,      \* run_interactive: use_cookies
    browser_cookies,  \* run_interactive: browser_cookies
    output_template,  \* run_interactive: output_template
    extra_options,    \* run_interactive: extra_options (a checkbox answer, in choice order)
    subtitle_langs,   \* run_interactive: subtitle_langs
    child,            \* the command subprocess.run is waiting for, <<>> when none
    status,           \* exit status of the last child that exited, NotExited while one runs
    confirmed,        \* history: truth of the answer to "Start download with these settings?"
    invoked,          \* history: the kind of every subprocess.run that started a process
    prompts,          \* history: the prompts shown to the user, in order
    exitStatus        \* exit status of the program, NotExited while it runs

vars == <<entry, pc, files, args, cookies_path, urls, download_type, list_cookies,
          use_cookies, browser_cookies, output_template, extra_options,
          subtitle_langs, child, status, confirmed, invoked, prompts, exitStatus>>

locals == <<urls, download_type, list_cookies, use_cookies, browser_cookies,
            output_template, extra_options, subtitle_langs>>

-----------------------------------------------------------------------------
(* Bounds of the model *)

MaxUrls == 2        \* main(): at most this many URL arguments
MaxText == 3        \* prompt_url(): at most this many characters typed
MaxStatus == 2      \* a child process exits with a status in 0..MaxStatus
MaxBrowsers == 1    \* prompt_browser_cookies(): answers among the first MaxBrowsers choices
MaxCalls == 1       \* a library caller calls each method of VideoDownloader at most this often

-----------------------------------------------------------------------------
(* Values *)

None == "<None>"
NotExited == 0 - 1
NoChild == <<>>

\* Python's True and False, where a variable may also hold None
PyTrue == "True"
PyFalse == "False"

\* Python truth value of an Optional[str] or Optional[bool]
Truthy(x) == x /= None /\ x /= "" /\ x /= PyFalse

ExitCodes == 0..MaxStatus

cookie_files == <<"www.youtube.com_cookies.txt", "youtube.com_cookies.txt", "cookies.txt">>

browsers == <<"chrome", "firefox", "edge", "brave", "opera", "safari">>

download_type_choices == <<"video", "audio", "custom", "list">>

extra_option_choices == <<"subtitles", "playlist", "metadata", "thumbnail", "sponsorblock">>

DefaultTemplate == "%(title)s.%(ext)s"

Range(s) == {s[i] : i \in 1..Len(s)}

\* x in a Python list
In(x, list) == \E i \in 1..Len(list) : list[i] = x

-----------------------------------------------------------------------------
(* video_downloader.py: VideoDownloader.download, the command it builds *)

\* lines 40-47: cookie handling; exists is Path(cookies).exists()
VD_CookieFlags(cookies, browser, exists) ==
    IF Truthy(cookies)
    THEN IF exists THEN <<"--cookies", cookies>> ELSE <<>>
    ELSE IF Truthy(browser) THEN <<"--cookies-from-browser", browser>> ELSE <<>>

\* a variant of lines 49-53 in which audio-only takes precedence over a format
VD_FormatFlags_AudioFirst(format, audio_only) ==
    IF audio_only THEN <<"--extract-audio", "--audio-format", "mp3">>
    ELSE IF Truthy(format) THEN <<"-f", format>>
    ELSE <<>>

\* lines 49-53: format selection
VD_FormatFlags(format, audio_only) ==
    IF Truthy(format) THEN <<"-f", format>>
    ELSE IF audio_only THEN <<"--extract-audio", "--audio-format", "mp3">>
    ELSE <<>>

\* lines 55-57: output template
VD_OutputFlags(template) ==
    IF Truthy(template) THEN <<"-o", template>> ELSE <<>>

\* lines 59-61: subtitles
VD_SubtitleFlags(subtitles, lang) ==
    IF subtitles THEN <<"--write-subs", "--sub-langs", lang>> ELSE <<>>

\* lines 63-65: playlist
VD_PlaylistFlags(playlist) ==
    IF ~playlist THEN <<"--no-playlist">> ELSE <<>>

\* lines 67-75: metadata, thumbnail, SponsorBlock
VD_FeatureFlags(metadata, thumbnail, sponsorblock) ==
    (IF metadata THEN <<"--add-metadata">> ELSE <<>>)
    \o (IF thumbnail THEN <<"--embed-thumbnail">> ELSE <<>>)
    \o (IF sponsorblock THEN <<"--sponsorblock-remove">> ELSE <<>>)

\* lines 38-77: cmd as handed to subprocess.run; fs is the set of existing paths
VD_download_cmd(a, fs) ==
    <<"yt-dlp">>
    \o VD_CookieFlags(a.cookies, a.browser, a.cookies \in fs)
    \o VD_FormatFlags(a.format, a.audio_only)
    \o VD_OutputFlags(a.output)
    \o VD_SubtitleFlags(a.subtitles, a.subtitles_lang)
    \o VD_PlaylistFlags(a.playlist)
    \o VD_FeatureFlags(a.metadata, a.thumbnail, a.sponsorblock)
    \o a.urls

\* video_downloader.py lines 87-90: cmd of get_available_formats(url, cookies); the
\* cookies path is passed on whether or not the file exists
VD_formats_cmd(url, cookies) ==
    <<"yt-dlp", "-F", url>>
    \o (IF Truthy(cookies) THEN <<"--cookies", cookies>> ELSE <<>>)

\* a variant of line 170 that validates nothing
BothCookieOptions_Off(a) == FALSE

\* line 170: the validation of main()
BothCookieOptions(a) == Truthy(a.cookies) /\ Truthy(a.browser)

-----------------------------------------------------------------------------
(* app.py: InteractiveVideoDownloader *)

\* lines 33-43: the first of cookie_files that exists, else None
RECURSIVE FindFrom(_, _)
FindFrom(i, fs) ==
    IF i > Len(cookie_files) THEN None
    ELSE IF cookie_files[i] \in fs THEN cookie_files[i]
    ELSE FindFrom(i + 1, fs)

\* a variant of lines 40-42 that keeps looking and returns the last name that exists
RECURSIVE FindLastFrom(_, _)
FindLastFrom(i, fs) ==
    IF i < 1 THEN None
    ELSE IF cookie_files[i] \in fs THEN cookie_files[i]
    ELSE FindLastFrom(i - 1, fs)

find_cookies_file_Last(fs) == FindLastFrom(Len(cookie_files), fs)

find_cookies_file(fs) == FindFrom(1, fs)

\* str.split() of line 200: the maximal runs of non-blank characters, in order.
\* text is the sequence of the characters typed; w is the word being read.
RECURSIVE SplitFrom(_, _, _)
SplitFrom(text, i, w) ==
    IF i > Len(text) THEN (IF w = "" THEN <<>> ELSE <<w>>)
    ELSE IF text[i] = " "
         THEN (IF w = "" THEN <<>> ELSE <<w>>) \o SplitFrom(text, i + 1, "")
         ELSE SplitFrom(text, i + 1, w \o text[i])

Split(text) == SplitFrom(text, 1, "")

\* line 49: validate = len(text.strip()) > 0
ValidUrlText(text) == \E i \in 1..Len(text) : text[i] /= " "

\* lines 118-120: the command of get_available_formats
IV_formats_cmd(url, use, path) ==
    <<"yt-dlp", "-F", url>>
    \o (IF Truthy(use) /\ Truthy(path) THEN <<"--cookies", path>> ELSE <<>>)

\* lines 141-145: authentication
IV_AuthFlags(use, path, browser) ==
    IF Truthy(use) /\ Truthy(path) THEN <<"--cookies", path>>
    ELSE IF Truthy(browser) THEN <<"--cookies-from-browser", browser>>
    ELSE <<>>

\* lines 147-158: format selection; format_choice is the answer to the prompt of
\* line 153, asked only for "custom"
IV_FormatFlags(dtype, format_choice) ==
    IF dtype = "video" THEN <<"-f", "bestvideo[ext=mp4]+bestaudio[ext=m4a]/best[ext=mp4]">>
    ELSE IF dtype = "audio" THEN <<"--extract-audio", "--audio-format", "mp3">>
    ELSE IF dtype = "custom" THEN <<"-f", format_choice>>
    ELSE <<>>

\* lines 160-162: output template
IV_OutputFlags(template) ==
    IF Truthy(template) THEN <<"-o", template>> ELSE <<>>

\* lines 164-175: extra options; an empty list is false in Python
IV_ExtraFlags(extra, langs) ==
    IF Len(extra) > 0
    THEN (IF In("subtitles", extra) THEN <<"--write-subs", "--sub-langs", langs>> ELSE <<>>)
         \o (IF ~In("playlist", extra) THEN <<"--no-playlist">> ELSE <<>>)
         \o (IF In("metadata", extra) THEN <<"--add-metadata">> ELSE <<>>)
         \o (IF In("thumbnail", extra) THEN <<"--embed-thumbnail">> ELSE <<>>)
         \o (IF In("sponsorblock", extra) THEN <<"--sponsorblock-remove">> ELSE <<>>)
    ELSE <<>>

\* lines 139-177: cmd as handed to subprocess.run
IV_download_cmd(us, dtype, template, extra, langs, use, browser, path, format_choice) ==
    <<"yt-dlp">>
    \o IV_AuthFlags(use, path, browser)
    \o IV_FormatFlags(dtype, format_choice)
    \o IV_OutputFlags(template)
    \o IV_ExtraFlags(extra, langs)
    \o us

\* a variant of line 211 that always asks
AsksBrowser_Always(use, path) == TRUE

\* line 211: whether the browser-cookies question is asked
AsksBrowser(use, path) == ~Truthy(use) \/ ~Truthy(path)

-----------------------------------------------------------------------------
(* Inputs *)

UrlWords == {"a", "b"}
UrlChars == {"a", " "}

SeqsUpTo(S, n) == UNION {[1..k -> S] : k \in 1..n}

\* sys.argv: one or more URLs (nargs="+")
UrlLists == SeqsUpTo(UrlWords, MaxUrls)

\* what the user can type at prompt_url(): questionary accepts only valid text
UrlTexts == {t \in SeqsUpTo(UrlChars, MaxText) : ValidUrlText(t)}

ArgSpace ==
    [urls : UrlLists, format : {None, "22"}, audio_only : BOOLEAN,
     output : {None, "", "o"}, subtitles : BOOLEAN, subtitles_lang : {"en", "es"},
     playlist : BOOLEAN, metadata : BOOLEAN, thumbnail : BOOLEAN,
     sponsorblock : BOOLEAN, cookies : {None, cookie_files[3]},
     browser : {None, browsers[1]}]

\* app.py parses no arguments
NoArgs ==
    [urls |-> <<>>, format |-> None, audio_only |-> FALSE, output |-> None,
     subtitles |-> FALSE, subtitles_lang |-> "en", playlist |-> FALSE,
     metadata |-> FALSE, thumbnail |-> FALSE, sponsorblock |-> FALSE,
     cookies |-> None, browser |-> None]

\* Question.ask() of questionary returns None when the user presses Ctrl-C at the
\* prompt; every prompt of app.py is asked with .ask()
Cancelled == None

ConfirmAnswers == {PyTrue, PyFalse}

BrowserAnswers == {browsers[i] : i \in 1..MaxBrowsers}
TemplateAnswers == {"", DefaultTemplate}
LangAnswers == {"en,es"}
FormatAnswers == {"22"}

\* the sublist of a list of choices that a set of ticked values selects
RECURSIVE Ticked(_, _)
Ticked(choices, S) ==
    IF choices = <<>> THEN <<>>
    ELSE (IF Head(choices) \in S THEN <<Head(choices)>> ELSE <<>>)
         \o Ticked(Tail(choices), S)

ExtraAnswers == {Ticked(extra_option_choices, S) : S \in SUBSET Range(extra_option_choices)}

-----------------------------------------------------------------------------
(* The state machine *)

Init ==
    /\ entry \in {"cli", "interactive"}
    /\ files \in SUBSET Range(cookie_files)
    /\ IF entry = "cli"
       THEN /\ args \in ArgSpace
            /\ files \subseteq {cookie_files[3]}   \* main() looks at args.cookies only
            /\ pc = "main"
       ELSE /\ args = NoArgs
            /\ pc = "check"
    /\ cookies_path = None
    /\ urls = <<>>
    /\ download_type = None
    /\ list_cookies = None
    /\ use_cookies = None
    /\ browser_cookies = None
    /\ output_template = None
    /\ extra_options = <<>>
    /\ subtitle_langs = None
    /\ child = NoChild
    /\ status = NotExited
    /\ confirmed = "unasked"
    /\ invoked = <<>>
    /\ prompts = <<>>
    /\ exitStatus = NotExited

env == <<entry, files, args, confirmed>>

\* the program is running its own code (no subprocess.run is waiting)
At(p) == pc = p /\ child = NoChild /\ exitStatus = NotExited

\* subprocess.run has the exit status of its child and returns or raises
Returned(p) == pc = p /\ child /= NoChild /\ status /= NotExited

\* sys.exit(code), or the end of the script with code 0
Exit(code) == pc' = "exit" /\ exitStatus' = code

\* subprocess.run(cmd, ...) starts the process and waits for it at position p
Run(kind, cmd, p) ==
    /\ child' = cmd
    /\ status' = NotExited
    /\ invoked' = Append(invoked, kind)
    /\ pc' = p

Ask(name) == prompts' = Append(prompts, name)

\* how often x occurs in the history q
Count(q, x) == Cardinality({i \in 1..Len(q) : q[i] = x})

\* the external process ends, with any status
Child_Exit ==
    /\ child /= NoChild /\ status = NotExited /\ exitStatus = NotExited
    /\ status' \in ExitCodes
    /\ UNCHANGED <<env, pc, cookies_path, locals, child, invoked, prompts, exitStatus>>

\* video_downloader.py lines 167-172
Main_Validate ==
    /\ At("main")
    /\ IF BothCookieOptions(args) THEN Exit(1)
       ELSE pc' = "check" /\ UNCHANGED exitStatus
    /\ UNCHANGED <<env, cookies_path, locals, child, status, invoked, prompts>>

\* check_ytdlp_installed (both files): subprocess.run(["yt-dlp", "--version"])
CheckYtdlp_Start ==
    /\ At("check")
    /\ Run("version", <<"yt-dlp", "--version">>, "check_wait")
    /\ UNCHANGED <<env, cookies_path, locals, prompts, exitStatus>>

\* check_ytdlp_installed: FileNotFoundError, no process was started
CheckYtdlp_NotFound ==
    /\ At("check")
    /\ Exit(1)
    /\ UNCHANGED <<env, cookies_path, locals, child, status, invoked, prompts>>

\* check_ytdlp_installed: check=True raises CalledProcessError on a non-zero status
CheckYtdlp_Return ==
    /\ Returned("check_wait")
    /\ IF status /= 0 THEN Exit(1)
       ELSE /\ pc' = CASE entry = "interactive" -> "find_cookies"
                       [] entry = "cli" -> "download"
                       [] OTHER -> "ready"
            /\ UNCHANGED exitStatus
    /\ child' = NoChild
    /\ UNCHANGED <<env, cookies_path, locals, status, invoked, prompts>>

\* a variant of lines 81-83 / 183-185 that exits with the status of the process
DownloadExitCode_Status(s) == s

\* lines 79-83 of video_downloader.py, lines 180-185 of app.py: the exit code of the
\* program once the download process has exited with status s
DownloadExitCode(s) == IF s /= 0 THEN 1 ELSE 0

\* video_downloader.py lines 38-80
VD_Download_Start ==
    /\ At("download")
    /\ Run("download", VD_download_cmd(args, files), "download_wait")
    /\ UNCHANGED <<env, cookies_path, locals, prompts, exitStatus>>

\* video_downloader.py lines 80-83; after a successful download main() ends, and
\* a library caller has the method return
VD_Download_Return ==
    /\ Returned("download_wait") /\ entry /= "interactive"
    /\ IF entry = "call" /\ DownloadExitCode(status) = 0
       THEN pc' = "ready" /\ args' = NoArgs /\ UNCHANGED exitStatus
       ELSE Exit(DownloadExitCode(status)) /\ UNCHANGED args
    /\ child' = NoChild
    /\ UNCHANGED <<entry, files, confirmed, cookies_path, locals, status, invoked,
                   prompts>>

\* a library caller calls download(urls, ...) of video_downloader.py (line 22) on
\* the constructed object, with any arguments
VD_Call_Download ==
    /\ At("ready") /\ entry = "call"
    /\ Count(invoked, "download") < MaxCalls
    /\ args' \in ArgSpace
    /\ pc' = "download"
    /\ UNCHANGED <<entry, files, confirmed, cookies_path, locals, child, status,
                   invoked, prompts, exitStatus>>

\* video_downloader.py lines 85-91: a library caller calls
\* get_available_formats(url, cookies), which starts yt-dlp -F
VD_GetFormats_Start ==
    /\ At("ready") /\ entry = "call"
    /\ Count(invoked, "list") < MaxCalls
    /\ \E url \in UrlWords, cookies \in {None, cookie_files[3]} :
         Run("list", VD_formats_cmd(url, cookies), "formats_wait")
    /\ UNCHANGED <<env, cookies_path, locals, prompts, exitStatus>>

\* video_downloader.py lines 91-94: a CalledProcessError is printed and dropped,
\* the method returns
VD_GetFormats_Return ==
    /\ Returned("formats_wait")
    /\ pc' = "ready"
    /\ child' = NoChild
    /\ UNCHANGED <<env, cookies_path, locals, status, invoked, prompts, exitStatus>>

\* app.py line 20: self.cookies_path = self.find_cookies_file()
IV_Init ==
    /\ At("find_cookies")
    /\ cookies_path' = find_cookies_file(files)
    /\ pc' = "prompt_url"
    /\ UNCHANGED <<env, locals, child, status, invoked, prompts, exitStatus>>

\* the local variables of run_interactive are gone once the script has ended
Forget ==
    /\ urls' = <<>>
    /\ download_type' = None
    /\ list_cookies' = None
    /\ use_cookies' = None
    /\ browser_cookies' = None
    /\ output_template' = None
    /\ extra_options' = <<>>
    /\ subtitle_langs' = None

\* the interactive script ends with status code
Leave(code) == Exit(code) /\ Forget

\* an exception that nothing catches ends the script with a traceback and status 1
Crash == Leave(1)

\* app.py line 200: urls = self.prompt_url().split(); None has no split()
PromptUrl ==
    /\ At("prompt_url")
    /\ \/ /\ \E text \in UrlTexts : urls' = Split(text)
          /\ pc' = "prompt_type"
          /\ UNCHANGED <<exitStatus, download_type, list_cookies, use_cookies,
                         browser_cookies, output_template, extra_options,
                         subtitle_langs>>
       \/ Crash                                  \* Cancelled: AttributeError
    /\ Ask("url")
    /\ UNCHANGED <<env, cookies_path, child, status, invoked>>

\* app.py lines 203-204: the first prompt_download_type()
PromptDownloadType ==
    /\ At("prompt_type")
    /\ \E t \in Range(download_type_choices) \cup {Cancelled} : download_type' = t
    /\ Ask("type")
    /\ pc' = IF download_type' = "list" THEN "list_cookies" ELSE "auth"
    /\ UNCHANGED <<env, cookies_path, urls, list_cookies, use_cookies,
                   browser_cookies, output_template, extra_options, subtitle_langs,
                   child, status, invoked, exitStatus>>

\* app.py lines 96-105: prompt_use_cookies() answers False without asking when no
\* cookies file was found; ans is what the question returns when asked
UseCookiesAnswer(path, ans) == IF ~Truthy(path) THEN PyFalse ELSE ans

UseCookiesAsked(path) == Truthy(path)

\* app.py line 205, the argument: self.prompt_use_cookies()
List_PromptUseCookies ==
    /\ At("list_cookies")
    /\ \E ans \in ConfirmAnswers \cup {Cancelled} :
         list_cookies' = UseCookiesAnswer(cookies_path, ans)
    /\ prompts' = IF UseCookiesAsked(cookies_path) THEN Append(prompts, "cookies")
                  ELSE prompts
    /\ pc' = "list_formats"
    /\ UNCHANGED <<env, cookies_path, urls, download_type, use_cookies,
                   browser_cookies, output_template, extra_options, subtitle_langs,
                   child, status, invoked, exitStatus>>

\* app.py lines 116-124: get_available_formats(urls[0], ...) starts yt-dlp -F; the
\* answer passed as its argument is kept nowhere else
GetFormats_Start ==
    /\ At("list_formats")
    /\ Run("list", IV_formats_cmd(urls[1], list_cookies, cookies_path), "list_wait")
    /\ list_cookies' = None
    /\ UNCHANGED <<env, cookies_path, urls, download_type, use_cookies,
                   browser_cookies, output_template, extra_options, subtitle_langs,
                   prompts, exitStatus>>

\* a variant of lines 125-126 that exits on a failed listing
AfterFormats_Exit(s) == IF s /= 0 THEN "exit" ELSE "prompt_type2"

\* a variant of lines 125-126 that lists again after a failed listing
AfterFormats_Retry(s) == IF s /= 0 THEN "list_formats" ELSE "prompt_type2"

\* app.py lines 124-126: where the program continues once the listing process has
\* exited with status s; a CalledProcessError is printed and dropped
AfterFormats(s) == "prompt_type2"

GetFormats_Return ==
    /\ Returned("list_wait")
    /\ pc' = AfterFormats(status)
    /\ IF pc' = "exit" THEN exitStatus' = 1 /\ Forget
       ELSE UNCHANGED <<exitStatus, locals>>
    /\ child' = NoChild
    /\ UNCHANGED <<env, cookies_path, status, invoked, prompts>>

\* app.py line 206: the choices offered by the second prompt_download_type()
SecondTypeChoices == Range(download_type_choices)

PromptDownloadType2 ==
    /\ At("prompt_type2")
    /\ \E t \in SecondTypeChoices \cup {Cancelled} : download_type' = t
    /\ Ask("type")
    /\ pc' = "auth"
    /\ UNCHANGED <<env, cookies_path, urls, list_cookies, use_cookies,
                   browser_cookies, output_template, extra_options, subtitle_langs,
                   child, status, invoked, exitStatus>>

\* app.py lines 209-211: use_cookies = self.prompt_use_cookies(); browser_cookies = None
PromptUseCookies ==
    /\ At("auth")
    /\ \E ans \in ConfirmAnswers \cup {Cancelled} :
         use_cookies' = UseCookiesAnswer(cookies_path, ans)
    /\ prompts' = IF UseCookiesAsked(cookies_path) THEN Append(prompts, "cookies")
                  ELSE prompts
    /\ browser_cookies' = None
    /\ pc' = IF AsksBrowser(use_cookies', cookies_path) THEN "browser_confirm"
             ELSE "template"
    /\ UNCHANGED <<env, cookies_path, urls, download_type, list_cookies,
                   output_template, extra_options, subtitle_langs,
                   child, status, invoked, exitStatus>>

\* app.py lines 212-216: "Do you want to use browser cookies instead?"
BrowserConfirm ==
    /\ At("browser_confirm")
    /\ \E ans \in ConfirmAnswers \cup {Cancelled} :
         pc' = IF Truthy(ans) THEN "browser_select" ELSE "template"
    /\ Ask("browser_confirm")
    /\ UNCHANGED <<env, cookies_path, locals, child, status, invoked, exitStatus>>

\* app.py line 217: browser_cookies = self.prompt_browser_cookies()
PromptBrowserCookies ==
    /\ At("browser_select")
    /\ \E b \in BrowserAnswers \cup {Cancelled} : browser_cookies' = b
    /\ Ask("browser")
    /\ pc' = "template"
    /\ UNCHANGED <<env, cookies_path, urls, download_type, list_cookies, use_cookies,
                   output_template, extra_options, subtitle_langs,
                   child, status, invoked, exitStatus>>

\* app.py line 220
PromptOutputTemplate ==
    /\ At("template")
    /\ \E t \in TemplateAnswers \cup {Cancelled} : output_template' = t
    /\ Ask("template")
    /\ pc' = "extra"
    /\ UNCHANGED <<env, cookies_path, urls, download_type, list_cookies, use_cookies,
                   browser_cookies, extra_options, subtitle_langs,
                   child, status, invoked, exitStatus>>

\* app.py lines 223-225; `"subtitles" in None` is a TypeError
PromptExtraOptions ==
    /\ At("extra")
    /\ \/ /\ \E e \in ExtraAnswers : extra_options' = e
          /\ subtitle_langs' = "en"
          /\ pc' = IF In("subtitles", extra_options') THEN "sublangs" ELSE "confirm"
          /\ UNCHANGED <<exitStatus, urls, download_type, list_cookies, use_cookies,
                         browser_cookies, output_template>>
       \/ Crash                                  \* Cancelled: TypeError at line 225
    /\ Ask("extra")
    /\ UNCHANGED <<env, cookies_path, child, status, invoked>>

\* app.py line 226
PromptSubtitleLanguages ==
    /\ At("sublangs")
    /\ \E l \in LangAnswers \cup {Cancelled} : subtitle_langs' = l
    /\ Ask("sublangs")
    /\ pc' = "confirm"
    /\ UNCHANGED <<env, cookies_path, urls, download_type, list_cookies, use_cookies,
                   browser_cookies, output_template, extra_options,
                   child, status, invoked, exitStatus>>

\* a variant of lines 230-245 that ignores the answer
AfterConfirm_Always(ans) == "i_download"

\* app.py lines 230-245: where the program continues after the answer; on a false
\* answer it prints "Download canceled." and the script ends
AfterConfirm(ans) == IF Truthy(ans) THEN "i_download" ELSE "exit"

\* app.py lines 230-245: "Start download with these settings?"
ConfirmStart ==
    /\ At("confirm")
    /\ \E ans \in ConfirmAnswers \cup {Cancelled} :
         /\ confirmed' = IF Truthy(ans) THEN "yes" ELSE "no"
         /\ pc' = AfterConfirm(ans)
    /\ IF pc' = "exit" THEN exitStatus' = 0 /\ Forget
       ELSE UNCHANGED <<exitStatus, locals>>
    /\ Ask("confirm")
    /\ UNCHANGED <<entry, files, args, cookies_path, child, status, invoked>>

\* subprocess.run of a list that holds None raises TypeError before any process
\* is started
Startable(cmd) == ~In(None, cmd)

\* app.py lines 139-181: download() asks the format code for "custom", builds cmd
\* and starts it
IV_Download_Start ==
    /\ At("i_download")
    /\ \E fc \in (IF download_type = "custom" THEN FormatAnswers \cup {Cancelled}
                  ELSE {None}) :
         LET cmd == IV_download_cmd(urls, download_type, output_template,
                                    extra_options, subtitle_langs, use_cookies,
                                    browser_cookies, cookies_path, fc)
         IN  IF Startable(cmd)
             THEN Run("download", cmd, "download_wait")
                  /\ UNCHANGED <<exitStatus, locals>>
             ELSE Crash /\ UNCHANGED <<child, status, invoked>>
    /\ prompts' = IF download_type = "custom" THEN Append(prompts, "format") ELSE prompts
    /\ UNCHANGED <<env, cookies_path>>

\* app.py lines 181-185, and the end of the script
IV_Download_Return ==
    /\ Returned("download_wait") /\ entry = "interactive"
    /\ Leave(DownloadExitCode(status))
    /\ child' = NoChild
    /\ UNCHANGED <<env, cookies_path, status, invoked, prompts>>

\* the positions inside the try block of run_interactive (lines 198-245)
TryPcs == {"prompt_url", "prompt_type", "list_cookies", "list_formats", "list_wait",
           "prompt_type2", "auth", "browser_confirm", "browser_select", "template",
           "extra", "sublangs", "confirm", "i_download", "download_wait"}

\* app.py lines 247-249: a Ctrl-C while subprocess.run waits inside the try block
\* (a Ctrl-C at a prompt is an answer of None); subprocess.run kills the child it
\* is waiting for before the exception propagates
KeyboardInterrupt ==
    /\ entry = "interactive" /\ pc \in TryPcs
    /\ exitStatus = NotExited
    /\ child /= NoChild /\ status = NotExited
    /\ child' = NoChild
    /\ Leave(0)
    /\ UNCHANGED <<env, cookies_path, status, invoked, prompts>>

Next ==
    \/ Child_Exit
    \/ Main_Validate
    \/ CheckYtdlp_Start
    \/ CheckYtdlp_NotFound
    \/ CheckYtdlp_Return
    \/ VD_Download_Start
    \/ VD_Download_Return
    \/ IV_Init
    \/ PromptUrl
    \/ PromptDownloadType
    \/ List_PromptUseCookies
    \/ GetFormats_Start
    \/ GetFormats_Return
    \/ PromptDownloadType2
    \/ PromptUseCookies
    \/ BrowserConfirm
    \/ PromptBrowserCookies
    \/ PromptOutputTemplate
    \/ PromptExtraOptions
    \/ PromptSubtitleLanguages
    \/ ConfirmStart
    \/ IV_Download_Start
    \/ IV_Download_Return
    \/ KeyboardInterrupt

Spec == Init /\ [][Next]_vars

\* a library caller constructs VideoDownloader() and calls its methods
InitDownload ==
    /\ entry = "call"
    /\ files \in SUBSET Range(cookie_files)
    /\ files \subseteq {cookie_files[3]}
    /\ args = NoArgs
    /\ pc = "check"
    /\ cookies_path = None
    /\ urls = <<>>
    /\ download_type = None
    /\ list_cookies = None
    /\ use_cookies = None
    /\ browser_cookies = None
    /\ output_template = None
    /\ extra_options = <<>>
    /\ subtitle_langs = None
    /\ child = NoChild
    /\ status = NotExited
    /\ confirmed = "unasked"
    /\ invoked = <<>>
    /\ prompts = <<>>
    /\ exitStatus = NotExited

NextDownload ==
    \/ Child_Exit
    \/ CheckYtdlp_Start
    \/ CheckYtdlp_NotFound
    \/ CheckYtdlp_Return
    \/ VD_Call_Download
    \/ VD_Download_Start
    \/ VD_Download_Return
    \/ VD_GetFormats_Start
    \/ VD_GetFormats_Return

SpecDownload == InitDownload /\ [][NextDownload]_vars

-----------------------------------------------------------------------------
(* Properties *)

Last(q) == q[Len(q)]

IsPrefix(q, r) == Len(q) <= Len(r) /\ \A i \in 1..Len(q) : q[i] = r[i]

\* the download process of this run has exited with a failure status
DownloadFailed ==
    /\ pc = "exit" /\ invoked /= <<>> /\ Last(invoked) = "download"
    /\ status /= NotExited /\ status /= 0

\* C1 as stated: when the download process exits with a non-zero status s, the
\* program (either entry point) terminates with exit status s.
C1_StatusPropagated == DownloadFailed => exitStatus = status

\* C1, amended: when the download process exits with a non-zero status, the
\* program (either entry point) terminates with exit status 1, whatever the status.
C1_FailureExitsOne ==
    (entry \in {"cli", "interactive"} /\ DownloadFailed) => exitStatus = 1

C1_Witness ==
    /\ entry = "interactive" /\ DownloadFailed /\ status > 1 /\ exitStatus = 1

\* C2 as stated: in every run the external executable is invoked at most once.
C2_AtMostOneInvocation == Len(invoked) <= 1

WaitPc(kind) ==
    CASE kind = "version" -> "check_wait"
      [] kind = "list" -> "list_wait"
      [] kind = "download" -> "download_wait"

\* C2, amended: a run of main invokes the executable at most twice (the version
\* check, then the download), a run of the interactive flow at most three times (the
\* version check, the format listing if chosen, the download); the download command
\* is invoked at most once; and every invocation is synchronous: while a process
\* runs, the program waits at the subprocess.run that started it and starts no other.
C2_InvocationsSynchronous ==
    /\ entry = "cli" => IsPrefix(invoked, <<"version", "download">>)
    /\ entry = "interactive" =>
          \/ IsPrefix(invoked, <<"version", "download">>)
          \/ IsPrefix(invoked, <<"version", "list", "download">>)
    /\ child /= NoChild => invoked /= <<>> /\ pc = WaitPc(Last(invoked))

C2_Witness ==
    /\ entry = "interactive"
    /\ invoked = <<"version", "list", "download">>
    /\ child /= NoChild /\ pc = "download_wait"

\* The command C3 describes, for the options a; exists: the cookies file exists.
C3_Expected(a, exists) ==
    LET given(x) == x /= None /\ x /= ""
        cookie == CASE given(a.cookies) /\ exists -> <<"--cookies", a.cookies>>
                    [] given(a.cookies) /\ ~exists -> <<>>
                    [] ~given(a.cookies) /\ given(a.browser) ->
                           <<"--cookies-from-browser", a.browser>>
                    [] OTHER -> <<>>
        fmt == CASE given(a.format) -> <<"-f", a.format>>
                 [] ~given(a.format) /\ a.audio_only ->
                        <<"--extract-audio", "--audio-format", "mp3">>
                 [] OTHER -> <<>>
        out == IF given(a.output) THEN <<"-o", a.output>> ELSE <<>>
        subs == IF a.subtitles THEN <<"--write-subs", "--sub-langs", a.subtitles_lang>>
                ELSE <<>>
        flags == <<[on |-> ~a.playlist, flag |-> "--no-playlist"],
                   [on |-> a.metadata, flag |-> "--add-metadata"],
                   [on |-> a.thumbnail, flag |-> "--embed-thumbnail"],
                   [on |-> a.sponsorblock, flag |-> "--sponsorblock-remove"]>>
        switches == [i \in 1..Cardinality({k \in 1..4 : flags[k].on}) |->
                       flags[CHOOSE k \in 1..4 :
                               /\ flags[k].on
                               /\ Cardinality({j \in 1..k : flags[j].on}) = i].flag]
    IN  <<"yt-dlp">> \o cookie \o fmt \o out \o subs \o switches \o a.urls

\* C3: for every option set, the command VideoDownloader.download hands to
\* subprocess.run is exactly the list C3 describes.
C3_CommandIsTable ==
    (entry = "call" /\ pc = "download_wait") =>
        child = C3_Expected(args, args.cookies \in files)

C3_Witness ==
    /\ entry = "call" /\ pc = "download_wait"
    /\ args.cookies /= None /\ args.cookies \notin files /\ args.browser /= None
    /\ args.format /= None /\ args.audio_only /\ args.output = ""
    /\ args.subtitles /\ ~args.playlist /\ args.sponsorblock /\ Len(args.urls) = 2
    /\ child = <<"yt-dlp", "-f", args.format, "--write-subs", "--sub-langs",
                 args.subtitles_lang>>
               \o <<"--no-playlist">>
               \o (IF args.metadata THEN <<"--add-metadata">> ELSE <<>>)
               \o (IF args.thumbnail THEN <<"--embed-thumbnail">> ELSE <<>>)
               \o <<"--sponsorblock-remove">> \o args.urls

PlaylistSelected ==
    IF entry = "interactive" THEN In("playlist", extra_options) ELSE args.playlist

\* C4: in both entry points the download command contains --no-playlist exactly
\* when the playlist option is not selected.
C4_NoPlaylistIffNotSelected ==
    (pc = "download_wait" /\ Last(invoked) = "download") =>
        (In("--no-playlist", child) <=> ~PlaylistSelected)

ListFailed ==
    /\ entry = "interactive" /\ invoked /= <<>> /\ Last(invoked) = "list"
    /\ child = NoChild /\ status /= NotExited /\ status /= 0

\* C5 as stated: once the format-listing process has exited with a non-zero status,
\* the program terminates with a failure status, prompting no further.
C5_ListFailureTerminates == ListFailed => (pc = "exit" /\ exitStatus > 0)

\* C5, amended: a non-zero status of the format-listing process is not propagated:
\* the program does not end on it but goes on with the second download-type prompt
\* and what follows it, so a run that has ended since has asked the download type
\* a second time.
C5_ListFailureContinues ==
    ListFailed =>
        \/ pc \in {"prompt_type2", "auth", "browser_confirm", "browser_select",
                   "template", "extra", "sublangs", "confirm", "i_download"}
           /\ exitStatus = NotExited
        \/ pc = "exit" /\ Count(prompts, "type") = 2

C5_Witness ==
    /\ ListFailed /\ pc = "i_download" /\ Count(prompts, "type") = 2

\* the prompts in the order C6 gives, then the format code of 'custom'
PromptOrder == <<"url", "type", "cookies", "browser_confirm", "browser", "template",
                 "extra", "sublangs", "confirm", "format">>

RankOf == [name \in Range(PromptOrder) |-> CHOOSE i \in 1..Len(PromptOrder) : PromptOrder[i] = name]

Rank(name) == RankOf[name]

\* each prompt comes later in the fixed order than the one before it
InOrder(q) == \A i \in 1..(Len(q) - 1) : Rank(q[i]) < Rank(q[i + 1])

NotFormat(x) == x /= "format"

\* the download is started only on a yes, and a no ends the run at once
ConfirmGatesDownload ==
    /\ (In("sublangs", prompts) /\ pc /= "exit") => In("subtitles", extra_options)
    /\ In("download", invoked) => confirmed = "yes"
    /\ confirmed = "no" =>
          ~In("download", invoked) /\ child = NoChild /\ pc = "exit" /\ exitStatus = 0

\* C6 as stated: the prompts come in the fixed order URL, download type, cookies
\* file, browser cookies, output template, extra options, subtitle languages (only
\* if subtitles was selected), final confirmation; the download is started only
\* after a yes, and a no ends the run with no download and no failure status.
C6_FixedPromptOrder ==
    entry = "interactive" =>
        InOrder(SelectSeq(prompts, NotFormat)) /\ ConfirmGatesDownload

\* the positions of a second download-type prompt
SecondType(q) == {j \in 3..Len(q) : q[j] = "type"}

\* the detour of the 'list' choice: what is asked after the URL and before the
\* second download-type prompt at position j
Detour(q, j) == SubSeq(q, 2, j - 1)

\* the prompts with that detour taken out
WithoutDetour(q, j) == <<q[1]>> \o SubSeq(q, j, Len(q))

\* C6, amended: the prompts come in the fixed order of C6, except that after the
\* choice 'list' the cookies-file question (if a file was found) and the
\* download-type prompt are asked a second time before authentication, and that for
\* 'custom' the format code is asked after the final confirmation; the download is
\* started only after a yes, and a no ends the run with no download and status 0.
C6_PromptOrderWithDetour ==
    entry = "interactive" =>
        /\ LET second == SecondType(prompts)
           IN  IF second = {} THEN InOrder(prompts)
               ELSE /\ Cardinality(second) = 1
                    /\ LET j == CHOOSE k \in second : TRUE
                       IN  /\ Detour(prompts, j) \in {<<"type">>, <<"type", "cookies">>}
                           /\ InOrder(WithoutDetour(prompts, j))
                    /\ In("list", invoked)
        /\ In("format", prompts) =>
              (pc /= "exit" => download_type = "custom") /\ confirmed = "yes"
        /\ ConfirmGatesDownload

C6_Witness ==
    /\ entry = "interactive" /\ pc = "download_wait"
    /\ prompts = <<"url", "type", "cookies", "type", "cookies", "browser_confirm",
                   "browser", "template", "extra", "sublangs", "confirm", "format">>

\* the cookies file C7 describes for the set fs of existing names
C7_FirstByPriority(fs) ==
    IF "www.youtube.com_cookies.txt" \in fs THEN "www.youtube.com_cookies.txt"
    ELSE IF "youtube.com_cookies.txt" \in fs THEN "youtube.com_cookies.txt"
    ELSE IF "cookies.txt" \in fs THEN "cookies.txt"
    ELSE None

\* C7: cookie-file discovery yields the first existing name in the order
\* www.youtube.com_cookies.txt, youtube.com_cookies.txt, cookies.txt, and None
\* exactly when none exists; with None the interactive flow never asks about a
\* cookies file and never puts --cookies in a command.
C7_CookieDiscovery ==
    entry = "interactive" =>
        /\ pc \in TryPcs =>
              /\ cookies_path = C7_FirstByPriority(files)
              /\ cookies_path = None <=>
                    files \cap {"www.youtube.com_cookies.txt", "youtube.com_cookies.txt",
                                "cookies.txt"} = {}
        /\ cookies_path = None => ~In("cookies", prompts) /\ ~In("--cookies", child)

C7_Witness ==
    /\ entry = "interactive" /\ pc = "download_wait"
    /\ files = {"youtube.com_cookies.txt", "cookies.txt"}
    /\ cookies_path = "youtube.com_cookies.txt"
    /\ In("--cookies", child)

C7_WitnessNone ==
    /\ entry = "interactive" /\ pc = "download_wait"
    /\ files = {} /\ cookies_path = None /\ In("list", invoked)

\* C8: in the interactive flow the download command is always built with download
\* type video, audio or custom, so it always carries a format selection.
C8_TypeNeverList ==
    (entry = "interactive" /\ pc = "download_wait") =>
        /\ download_type \in {"video", "audio", "custom"}
        /\ In("-f", child) \/ In("--extract-audio", child)

\* C9: in main, when both --cookies and --browser are given (non-empty), the
\* program exits with status 1 and no external process is ever started.
C9_BothCookieSourcesRejected ==
    (entry = "cli" /\ args.cookies \notin {None, ""} /\ args.browser \notin {None, ""}) =>
        /\ invoked = <<>> /\ child = NoChild
        /\ pc \in {"main", "exit"}
        /\ pc = "exit" => exitStatus = 1

C9_Witness ==
    /\ entry = "cli" /\ args.cookies \notin {None, ""} /\ args.browser \notin {None, ""}
    /\ pc = "exit" /\ exitStatus = 1 /\ invoked = <<>>

\* C10: no command of either entry point contains both --cookies and
\* --cookies-from-browser, and the interactive flow asks about browser cookies only
\* when the discovered cookies file is not going to be used.
C10_OneCookieSource ==
    /\ ~(In("--cookies", child) /\ In("--cookies-from-browser", child))
    /\ (entry = "interactive" /\ pc /= "exit"
        /\ (In("browser_confirm", prompts) \/ In("browser", prompts)))
          => ~(use_cookies = PyTrue /\ cookies_path /= None)

C10_Witness ==
    /\ entry = "interactive" /\ pc = "download_wait"
    /\ cookies_path /= None /\ use_cookies = PyFalse /\ In("browser", prompts)
    /\ In("--cookies-from-browser", child) /\ ~In("--cookies", child)

====
